---- MODULE Spec2Model ----
(***************************************************************************)
(* Restaurant chatbot (src/app.js): the socket.io conversation handler,    *)
(* the Order collection and the Paystack payment callback.                 *)
(*                                                                         *)
(* Granularity.  A handler is split at its awaits on real I/O (MongoDB,    *)
(* Paystack).  The awaited operation takes effect at the end of the        *)
(* segment that issues it; the next segment of the handler is the          *)
(* continuation that receives the result.  Between two segments of one     *)
(* handler any segment of any other handler may run, also one of the same  *)
(* socket: socket.io calls the async listener for each packet and does not *)
(* wait for the promise it returns.  `await req.session.save()` awaits a   *)
(* non-promise and is a microtask only, so it splits nothing.              *)
(***************************************************************************)
EXTENDS Integers, Sequences, FiniteSets, TLC

\* ---------------------------------------------------------------- bounds
NumConns == 1
MaxOrders == 2
MaxTasks == 2
MaxCatalogChanges == 1
MaxReconnects == 1

Conns == 1..NumConns
OrderIds == 1..MaxOrders

\* ---------------------------------------------------------------- text
\* A user message is a sequence of one-character strings.
Digits == {"0", "1", "2", "3", "4", "5", "6", "7", "8", "9"}

DigitVal(ch) ==
  CASE ch = "0" -> 0 [] ch = "1" -> 1 [] ch = "2" -> 2 [] ch = "3" -> 3
    [] ch = "4" -> 4 [] ch = "5" -> 5 [] ch = "6" -> 6 [] ch = "7" -> 7
    [] ch = "8" -> 8 [] ch = "9" -> 9

\* The messages the clients send.
Inputs ==
  { <<"0">>, <<"1">>, <<"9", "9">>,
    <<"3">>, <<"2", ",", "2">>, <<"1", ",", "3">>, <<"2", ",">>,
    <<"5", ",", "3">>, <<"0", ",", "5">> }

RECURSIVE TrimLeft(_)
TrimLeft(s) ==
  IF s # <<>> /\ Head(s) = " " THEN TrimLeft(Tail(s)) ELSE s

RECURSIVE TrimRight(_)
TrimRight(s) ==
  IF s # <<>> /\ s[Len(s)] = " " THEN TrimRight(SubSeq(s, 1, Len(s) - 1)) ELSE s

\* input.toString().trim()
Trim(s) == TrimRight(TrimLeft(s))

\* String.prototype.split(","): the parts between the commas, empty parts kept.
RECURSIVE SplitComma(_, _)
SplitComma(s, cur) ==
  IF s = <<>> THEN <<cur>>
  ELSE IF Head(s) = "," THEN <<cur>> \o SplitComma(Tail(s), <<>>)
  ELSE SplitComma(Tail(s), Append(cur, Head(s)))

Split(s) == SplitComma(s, <<>>)

AllDigits(p) == p # <<>> /\ \A i \in 1..Len(p) : p[i] \in Digits

Reserved == { <<"0">>, <<"1">>, <<"9", "7">>, <<"9", "8">>, <<"9", "9">> }

\* A faulty variant of MatchesPattern that C17 must reject: the pattern
\* \d+(,\d*)*, which lets a comma stand without digits after it.
MatchesLoose(s) ==
  \/ s \in Reserved
  \/ /\ AllDigits(Split(s)[1])
     /\ \A i \in 1..Len(Split(s)) : Split(s)[i] = <<>> \/ AllDigits(Split(s)[i])

\* cleanedInput.match(/^(0|1|97|98|99|\d+(,\d+)*)$/)
MatchesPattern(s) ==
  \/ s \in Reserved
  \/ \A i \in 1..Len(Split(s)) : AllDigits(Split(s)[i])

NaN == -1

\* parseInt(num.trim()): the value of the leading decimal digits, NaN if none.
RECURSIVE ParseDigits(_, _, _)
ParseDigits(p, acc, seen) ==
  IF p = <<>> \/ Head(p) \notin Digits
    THEN (IF seen THEN acc ELSE NaN)
    ELSE ParseDigits(Tail(p), acc * 10 + DigitVal(Head(p)), TRUE)

ParseInt(p) == ParseDigits(Trim(p), 0, FALSE)

\* cleanedInput.split(",").map(parseInt).filter(!isNaN)
SelectedItems(s) ==
  LET parts == Split(s)
      nums == [i \in 1..Len(parts) |-> ParseInt(parts[i])]
  IN  SelectSeq(nums, LAMBDA n : n # NaN)

\* ---------------------------------------------------------------- catalog
PriceMin == 100
PriceMax == 10000

\* initializeMenu: the seeded menu, in insertion order.
SeedMenu ==
  << [id |-> 1, price |-> 1500], [id |-> 2, price |-> 2000],
     [id |-> 3, price |-> 1200], [id |-> 4, price |-> 800] >>

RECURSIVE SumPrices(_)
SumPrices(items) ==
  IF items = <<>> THEN 0 ELSE Head(items).price + SumPrices(Tail(items))

Range(f) == {f[i] : i \in DOMAIN f}

\* MenuItem.find({_id: {$in: ids}}): each matching document once, in
\* collection order.
MenuFindIn(cat, ids) == SelectSeq(cat, LAMBDA it : it.id \in Range(ids))

\* A faulty variant of ValidItems that C18 must reject: the filter is
\* index > 0, which drops the first menu item.
ValidItemsAfterFirst(cat, nums) ==
  LET inRange == SelectSeq(nums, LAMBDA n : n - 1 > 0 /\ n - 1 < Len(cat))
  IN  [i \in 1..Len(inRange) |-> cat[inRange[i]].id]

\* selectedItems.map(n - 1).filter(0 <= index < menuItems.length)
\*   .map(index => menuItems[index]._id)
ValidItems(cat, nums) ==
  LET inRange == SelectSeq(nums, LAMBDA n : n - 1 >= 0 /\ n - 1 < Len(cat))
  IN  [i \in 1..Len(inRange) |-> cat[inRange[i]].id]

\* validItems.reduce((sum, id) => sum + (menuItems.find(id)?.price || 0), 0)
RECURSIVE RunningTotal(_, _)
RunningTotal(cat, ids) ==
  IF ids = <<>> THEN 0
  ELSE LET hit == SelectSeq(cat, LAMBDA it : it.id = Head(ids))
       IN  (IF hit = <<>> THEN 0 ELSE hit[1].price) + RunningTotal(cat, Tail(ids))

\* ---------------------------------------------------------------- orders
NoRef == <<>>

\* A faulty variant of RefOf that C7 must reject: one reference for all orders.
RefOfFixed(oid) == <<"order_", 1>>

\* paymentData.reference: `order_${activeOrder._id}`
RefOf(oid) == <<"order_", oid>>

\* What a payment callback can carry: a reference of some order id, or one
\* the application never produced.
UnknownRef == <<"order_", 0>>
Refs == {RefOf(o) : o \in OrderIds} \cup {UnknownRef}

\* items.reduce((sum, item) => sum + item.price, 0)
OrderTotal(items) == SumPrices(items)

\* new Order({sessionId, items: items.map(...), total, status: "pending"})
NewOrder(sid, items) ==
  [ sessionId |-> sid,
    items |-> [i \in 1..Len(items) |->
                 [menuItemId |-> items[i].id, price |-> items[i].price, quantity |-> 1]],
    total |-> OrderTotal(items),
    status |-> "pending",
    paymentReference |-> NoRef ]

\* orderSchema validators that can fail: total min 100.
TotalMin == 100
ValidOrder(doc) == doc.total >= TotalMin

Restrict(os, keep) == [o \in keep |-> os[o]]

\* {sessionId: sid, status: "pending"}
PendingOf(os, sid) ==
  {o \in DOMAIN os : os[o].sessionId = sid /\ os[o].status = "pending"}

\* A faulty variant of DeleteManyPending that C6 must reject: the status filter
\* is missing.
DeleteManyOfSession(os, sid) ==
  Restrict(os, {o \in DOMAIN os : os[o].sessionId # sid})

\* Order.deleteMany({sessionId: sid, status: "pending"})
DeleteManyPending(os, sid) == Restrict(os, DOMAIN os \ PendingOf(os, sid))

\* A faulty variant of DeleteOnePending that C11 must reject: the filter matches
\* no document.
DeleteOneNothing(os, oid) == os

\* Order.deleteOne({_id: oid, status: "pending"}) for a defined _id
DeleteOnePending(os, oid) ==
  IF oid \in DOMAIN os /\ os[oid].status = "pending"
    THEN Restrict(os, DOMAIN os \ {oid})
    ELSE os

\* Order.deleteOne({_id: undefined, status: "pending"}): the stores the call can
\* leave, depending on whether the driver sends the undefined _id as null
\* (nothing matches) or drops it from the filter (the first pending order of
\* the collection matches, whose ever it is).
DeleteOneUndefined(os) ==
  {os} \cup {Restrict(os, DOMAIN os \ {o}) :
               o \in {p \in DOMAIN os : os[p].status = "pending"}}

\* {paymentReference: ref}
MatchRef(os, ref) == {o \in DOMAIN os : os[o].paymentReference = ref}

\* A faulty variant of SetPaid that C5 must reject: the update replaces the
\* document's items instead of setting the status alone.
SetPaidReplacing(os, m) == [os EXCEPT ![m].status = "paid", ![m].items = <<>>]

\* Order.findOneAndUpdate({paymentReference: ref}, {status: "paid"}) applied to
\* the matched order m
SetPaid(os, m) == [os EXCEPT ![m].status = "paid"]

\* activeOrder.paymentReference = ref; activeOrder.save() on a stored document:
\* updateOne({_id}, {$set: {paymentReference}})
SetReference(os, oid, ref) == [os EXCEPT ![oid].paymentReference = ref]

\* ---------------------------------------------------------------- state
VARIABLES
  catalog,      \* MenuItem collection, in collection order
  catChanges,   \* catalog edits made so far by the restaurant
  session,      \* per socket: req.session {sessionId, currentOrder, awaitingItemSelection}
  orders,       \* Order collection: _id -> document
  nextOid,      \* ObjectIds handed out by new Order()
  issued,       \* references Paystack holds an initialized transaction for
  tasks,        \* handlers suspended at an await
  last          \* what the last step did and emitted

vars == <<catalog, catChanges, session, orders, nextOid, issued, tasks, last>>

\* uuidv4() of the connection handler: a fresh token per socket.
Token(c) == c

\* A faulty variant of NewToken that C16 must reject: the token is kept.
SameToken(tok) == tok

\* uuidv4() of a regenerated session: a token that no session carries or
\* carried, and so no order either.
NewToken(tok) == tok + NumConns

\* req.session.regenerate(...): a new session object with a new sessionId and
\* an empty currentOrder (lines 153-159, and 164-168).
Regenerated(sess) ==
  [sessionId |-> NewToken(sess.sessionId), currentOrder |-> <<>>,
   awaitingItemSelection |-> FALSE]

NoTask ==
  [ kind |-> "none", conn |-> 0, pc |-> "none", ids |-> <<>>,
    items |-> <<>>, oid |-> 0, total |-> 0, fresh |-> FALSE,
    ref |-> NoRef, res |-> "none" ]

\* Room for one more suspended handler.
CanSuspend == Cardinality(tasks) < MaxTasks

Init ==
  /\ catalog = SeedMenu
  /\ catChanges = 0
  /\ session = [c \in Conns |->
                  [sessionId |-> Token(c), currentOrder |-> <<>>,
                   awaitingItemSelection |-> FALSE]]
  /\ orders = <<>>
  /\ nextOid = 0
  /\ issued = {}
  /\ tasks = {}
  /\ last = [ev |-> "connect", conn |-> 0, out |-> <<"welcome", "options">>]

\* sendOptions()
Options == <<"options">>

\* A segment that emits nothing and ends no handler.
Quiet == [ev |-> "step", conn |-> 0, out |-> <<>>]

Cart(c) == session[c].currentOrder
Sid(c) == session[c].sessionId

SetCart(c, cart) == [session EXCEPT ![c].currentOrder = cart]

\* tasks is a set: two suspended handlers in the same local state are one
\* element, so a step that would suspend a second one is not taken.
Suspended(t) == t \notin tasks /\ tasks' = tasks \cup {t}
Resumed(t, u) == u \notin tasks /\ tasks' = (tasks \ {t}) \cup {u}
Finish(t) == tasks \ {t}

\* ---------------------------------------------------------------- user-message
\* Input validation fails (lines 220-229).
Invalid(c, inp) ==
  /\ ~MatchesPattern(Trim(inp))
  /\ last' = [ev |-> "invalid", conn |-> c, out |-> <<"invalid">> \o Options]
  /\ UNCHANGED <<catalog, catChanges, session, orders, nextOid, issued, tasks>>

\* case "1" up to `await MenuItem.find()`.
BrowseStart(c, inp) ==
  /\ MatchesPattern(Trim(inp)) /\ Trim(inp) = <<"1">>
  /\ CanSuspend
  /\ session' = SetCart(c, <<>>)
  /\ Suspended([NoTask EXCEPT !.kind = "browse", !.conn = c, !.pc = "menu"])
  /\ last' = Quiet
  /\ UNCHANGED <<catalog, catChanges, orders, nextOid, issued>>

\* case "1" after the menu was read: emit it, expect a selection.
BrowseDone(t) ==
  /\ t.kind = "browse" /\ t.pc = "menu"
  /\ session' = [session EXCEPT ![t.conn].awaitingItemSelection = TRUE]
  /\ tasks' = Finish(t)
  /\ last' = [ev |-> "browse", conn |-> t.conn, out |-> <<"menu">>]
  /\ UNCHANGED <<catalog, catChanges, orders, nextOid, issued>>

\* A faulty variant of Awaiting that C19 must reject: the flag is not tested.
AwaitingAlways(c) == TRUE

\* if (req.session.awaitingItemSelection) of the default branch
Awaiting(c) == session[c].awaitingItemSelection

\* default branch while no selection is awaited: nothing happens.
SelectIgnored(c, inp) ==
  /\ MatchesPattern(Trim(inp)) /\ Trim(inp) \notin Reserved
  /\ ~Awaiting(c)
  /\ last' = [ev |-> "ignored", conn |-> c, out |-> <<>>]
  /\ UNCHANGED <<catalog, catChanges, session, orders, nextOid, issued, tasks>>

\* default branch while a selection is awaited, up to `await MenuItem.find()`.
SelectStart(c, inp) ==
  /\ MatchesPattern(Trim(inp)) /\ Trim(inp) \notin Reserved
  /\ Awaiting(c)
  /\ CanSuspend
  /\ LET valid == ValidItems(catalog, SelectedItems(Trim(inp)))
     IN  Suspended([NoTask EXCEPT !.kind = "select", !.conn = c, !.pc = "picked",
                                        !.ids = valid,
                                        !.total = RunningTotal(catalog, valid)])
  /\ last' = Quiet
  /\ UNCHANGED <<catalog, catChanges, session, orders, nextOid, issued>>

\* default branch after the menu was read (lines 480-498).
SelectDone(t) ==
  /\ t.kind = "select" /\ t.pc = "picked"
  /\ IF Len(t.ids) > 0
       THEN /\ session' = [session EXCEPT ![t.conn].currentOrder = t.ids,
                                          ![t.conn].awaitingItemSelection = FALSE]
            /\ last' = [ev |-> "select", conn |-> t.conn, out |-> <<"added">> \o Options,
                        count |-> Len(t.ids), total |-> t.total]
       ELSE /\ session' = session
            /\ last' = [ev |-> "select", conn |-> t.conn,
                        out |-> <<"invalidSelection">> \o Options,
                        count |-> 0, total |-> 0]
  /\ tasks' = Finish(t)
  /\ UNCHANGED <<catalog, catChanges, orders, nextOid, issued>>

\* case "0" up to `await Order.deleteMany(...)`.
CancelStart(c, inp) ==
  /\ MatchesPattern(Trim(inp)) /\ Trim(inp) = <<"0">>
  /\ CanSuspend
  /\ orders' = DeleteManyPending(orders, Sid(c))
  /\ Suspended([NoTask EXCEPT !.kind = "cancel", !.conn = c, !.pc = "deleted"])
  /\ last' = Quiet
  /\ UNCHANGED <<catalog, catChanges, session, nextOid, issued>>

\* req.session.currentOrder = [] of case "0"
CartAfterCancel(cart) == <<>>

\* case "0" after the delete returned (lines 459-463).
CancelDone(t) ==
  /\ t.kind = "cancel" /\ t.pc = "deleted"
  /\ session' = SetCart(t.conn, CartAfterCancel(Cart(t.conn)))
  /\ tasks' = Finish(t)
  /\ last' = [ev |-> "cancel", conn |-> t.conn, out |-> <<"cancelled">> \o Options]
  /\ UNCHANGED <<catalog, catChanges, orders, nextOid, issued>>

\* ---------------------------------------------------------------- checkout
\* How a case "99" turn ended.
CheckoutEnd(t, how, out) ==
  [ev |-> "checkout", conn |-> t.conn, how |-> how, out |-> out, ids |-> t.ids,
   items |-> t.items, oid |-> t.oid, fresh |-> t.fresh,
   gw |-> (t.pc \in {"gateway", "refsaved"})]

ErrorOut == <<"payError">> \o Options

\* Outcomes of POST /transaction/initialize as the handler sees them: a response
\* with an authorization_url, a response without one, a rejected promise
\* (timeout, non-2xx, network).
InitializeResults == {"ok", "malformed", "error"}

\* A faulty variant of Amount that C20 must reject: the total is sent as it is.
AmountInNaira(total) == total

\* paymentData.amount: activeOrder.total * 100
Amount(total) == total * 100

\* lines 316-355: the total check, then the request to Paystack goes out.
Initialize(t) ==
  IF t.total < TotalMin
    THEN /\ tasks' = Finish(t)
         /\ last' = CheckoutEnd(t, "minimum", <<"minAmount">> \o Options)
    ELSE /\ Resumed(t, [t EXCEPT !.pc = "gateway", !.ref = RefOf(t.oid)])
         /\ last' = [ev |-> "initialize", conn |-> t.conn, out |-> <<>>, oid |-> t.oid,
                     total |-> t.total, amount |-> Amount(t.total),
                     reference |-> RefOf(t.oid)]

\* ObjectIds are left for the carts being checked out.
CanCreate ==
  nextOid + Cardinality({t \in tasks : t.kind = "checkout" /\ t.pc = "validate"}) < MaxOrders

\* case "99" with items in the cart, up to `await MenuItem.find({_id: {$in: cart}})`.
CheckoutCart(c, inp) ==
  /\ MatchesPattern(Trim(inp)) /\ Trim(inp) = <<"9", "9">>
  /\ Len(Cart(c)) > 0
  /\ CanSuspend /\ CanCreate
  /\ Suspended([NoTask EXCEPT !.kind = "checkout", !.conn = c, !.pc = "validate",
                              !.ids = Cart(c), !.items = MenuFindIn(catalog, Cart(c))])
  /\ last' = Quiet
  /\ UNCHANGED <<catalog, catChanges, session, orders, nextOid, issued>>

\* case "99" with an empty cart: Order.findOne({sessionId, status: "pending"})
\* returns any one of the matching orders, then lines 311-355.  The continuation
\* after findOne touches no shared state and is part of this step.
CheckoutPending(c, inp) ==
  /\ MatchesPattern(Trim(inp)) /\ Trim(inp) = <<"9", "9">>
  /\ Len(Cart(c)) = 0
  /\ CanSuspend
  /\ \E o \in PendingOf(orders, Sid(c)) :
       Initialize([NoTask EXCEPT !.kind = "checkout", !.conn = c, !.pc = "resolved",
                                 !.oid = o, !.total = orders[o].total])
  /\ UNCHANGED <<catalog, catChanges, session, orders, nextOid, issued>>

\* case "99" with an empty cart and no pending order (lines 311-314).
CheckoutNothing(c, inp) ==
  /\ MatchesPattern(Trim(inp)) /\ Trim(inp) = <<"9", "9">>
  /\ Len(Cart(c)) = 0
  /\ PendingOf(orders, Sid(c)) = {}
  /\ last' = CheckoutEnd([NoTask EXCEPT !.conn = c], "nothing", <<"noOrder">> \o Options)
  /\ UNCHANGED <<catalog, catChanges, session, orders, nextOid, issued, tasks>>

\* case "99" when that first query rejects: the catch block runs with
\* activeOrder undefined (lines 368-387).
CheckoutLookupFails(c, inp) ==
  /\ MatchesPattern(Trim(inp)) /\ Trim(inp) = <<"9", "9">>
  /\ orders' \in DeleteOneUndefined(orders)
  /\ last' = CheckoutEnd([NoTask EXCEPT !.conn = c, !.ids = Cart(c)], "lookupFailed", ErrorOut)
  /\ UNCHANGED <<catalog, catChanges, session, nextOid, issued, tasks>>

\* items.length !== req.session.currentOrder.length
ItemsMissing(items, cart) == Len(items) # Len(cart)

\* case "99" after MenuItem.find returned (lines 276-300): refuse the cart, or
\* build the order and save it.
CheckoutValidate(t) ==
  /\ t.kind = "checkout" /\ t.pc = "validate"
  /\ IF ItemsMissing(t.items, Cart(t.conn))
       THEN /\ session' = SetCart(t.conn, <<>>)
            /\ tasks' = Finish(t)
            /\ last' = CheckoutEnd(t, "unavailable", <<"unavailable">> \o Options)
            /\ UNCHANGED <<orders, nextOid>>
       ELSE /\ nextOid' = nextOid + 1
            /\ LET oid == nextOid + 1
                   doc == NewOrder(Sid(t.conn), t.items)
               IN  IF ValidOrder(doc)
                     THEN /\ orders' = orders @@ (oid :> doc)
                          /\ Resumed(t, [t EXCEPT !.pc = "saved", !.oid = oid,
                                                         !.total = doc.total, !.fresh = TRUE,
                                                         !.ids = <<>>, !.items = <<>>])
                          /\ last' = [ev |-> "orderCreated", conn |-> t.conn, out |-> <<>>,
                                      oid |-> oid, ids |-> t.ids, items |-> t.items]
                     ELSE /\ orders' = DeleteOnePending(orders, oid)
                          /\ tasks' = Finish(t)
                          /\ last' = CheckoutEnd(t, "saveFailed", ErrorOut)
            /\ session' = session
  /\ UNCHANGED <<catalog, catChanges, issued>>

\* case "99" after the new order was saved (lines 301-355).
CheckoutSaved(t) ==
  /\ t.kind = "checkout" /\ t.pc = "saved"
  /\ session' = SetCart(t.conn, <<>>)
  /\ Initialize(t)
  /\ UNCHANGED <<catalog, catChanges, orders, nextOid, issued>>

\* case "99" after Paystack answered (lines 357-364, or the catch block): keep
\* the reference on the order, or report the failure and delete the order.
\* save() of a document that is no longer stored either rejects
\* (DocumentNotFoundError) or updates nothing, by the mongoose version.
CheckoutGateway(t, r) ==
  /\ t.kind = "checkout" /\ t.pc = "gateway"
  /\ issued' = IF r = "ok" THEN issued \cup {t.ref} ELSE issued
  /\ IF r = "ok"
       THEN /\ IF t.oid \in DOMAIN orders
                 THEN /\ orders' = SetReference(orders, t.oid, t.ref)
                      /\ Resumed(t, [t EXCEPT !.pc = "refsaved", !.res = "saved"])
                 ELSE /\ orders' = orders
                      /\ \E res \in {"saved", "notfound"} :
                           Resumed(t, [t EXCEPT !.pc = "refsaved", !.res = res])
            /\ last' = Quiet
       ELSE /\ orders' = DeleteOnePending(orders, t.oid)
            /\ tasks' = Finish(t)
            /\ last' = CheckoutEnd(t, "gatewayFailed", ErrorOut)
  /\ UNCHANGED <<catalog, catChanges, session, nextOid>>

\* case "99" after the reference was saved (line 367, or the catch block).
CheckoutRefSaved(t) ==
  /\ t.kind = "checkout" /\ t.pc = "refsaved"
  /\ IF t.res = "saved"
       THEN /\ orders' = orders
            /\ last' = CheckoutEnd(t, "redirect", <<"redirect">>)
       ELSE /\ orders' = DeleteOnePending(orders, t.oid)
            /\ last' = CheckoutEnd(t, "saveFailed", ErrorOut)
  /\ tasks' = Finish(t)
  /\ UNCHANGED <<catalog, catChanges, session, nextOid, issued>>

\* ---------------------------------------------------------------- payment callback
CallbackEnd(verify, found, transition, resp, bcast, unhandled) ==
  [ev |-> "callback", conn |-> 0, out |-> <<>>, verify |-> verify, found |-> found,
   transition |-> transition, resp |-> resp, bcast |-> bcast, unhandled |-> unhandled]

\* GET /payment/callback (lines 516-544).  Paystack reports a status only for a
\* reference it holds a transaction for.  The segments after findOneAndUpdate
\* touch no shared state and are part of the step that runs it.

\* The page (lines 977-985): what it sends to the server when it receives
\* event ev.  It listens to bot-message (shows the text) and to redirect (opens
\* the url); it has no listener for any other event.
PageOn(ev) ==
  CASE ev = "bot-message" -> {}
    [] ev = "redirect" -> {}
    [] OTHER -> {}

\* socket.on("clear-session", sessionId) of the server (lines 161-171), for
\* the socket of connection c.
ClearSession(s, c, sid) ==
  IF s[c].sessionId = sid THEN Regenerated(s[c]) ELSE s[c]

\* io.emit(ev, sid): every page receives ev.  The server's listener for
\* clear-session runs for a clear-session packet sent by a page.
Broadcast(s, ev, sid) ==
  [c \in DOMAIN s |->
     IF "clear-session" \in PageOn(ev) THEN ClearSession(s, c, sid) ELSE s[c]]

\* Verified "success", an order carries the reference: findOneAndUpdate sets
\* its status, the receipt redirect is sent, clear-session is broadcast.
CallbackPaid(ref) ==
  /\ ref \in issued
  /\ \E m \in MatchRef(orders, ref) :
       /\ orders' = SetPaid(orders, m)
       /\ session' = Broadcast(session, "clear-session", orders[m].sessionId)
       /\ last' = CallbackEnd("success", TRUE, orders[m].status = "pending",
                              <<"/receipt">>, <<orders[m].sessionId>>, FALSE)
  /\ UNCHANGED <<catalog, catChanges, nextOid, issued, tasks>>

\* Verified "success", no order carries the reference: findOneAndUpdate returns
\* null, the receipt redirect is sent, then order.sessionId throws and the
\* catch block's redirect throws in turn (the response is already sent).
CallbackNoOrder(ref) ==
  /\ ref \in issued
  /\ MatchRef(orders, ref) = {}
  /\ last' = CallbackEnd("success", FALSE, FALSE, <<"/receipt">>, <<>>, TRUE)
  /\ UNCHANGED <<catalog, catChanges, session, orders, nextOid, issued, tasks>>

\* Verified with another status: the handler ends without sending anything.
CallbackNotSuccess(ref) ==
  /\ ref \in issued
  /\ last' = CallbackEnd("failed", FALSE, FALSE, <<>>, <<>>, FALSE)
  /\ UNCHANGED <<catalog, catChanges, session, orders, nextOid, issued, tasks>>

\* The verify request rejects (network, or 4xx for a reference Paystack does
\* not know): the catch block redirects to /?payment=error.
CallbackVerifyFails(ref) ==
  /\ last' = CallbackEnd("error", FALSE, FALSE, <<"/?payment=error">>, <<>>, FALSE)
  /\ UNCHANGED <<catalog, catChanges, session, orders, nextOid, issued, tasks>>

\* ---------------------------------------------------------------- catalog edits
\* The restaurant edits the MenuItem collection the handlers read: it takes an
\* item off the menu, or changes its price.
EditedItems == {3}

CatalogRemove(i) ==
  /\ catChanges < MaxCatalogChanges
  /\ i \in 1..Len(catalog) /\ catalog[i].id \in EditedItems
  /\ catalog' = SubSeq(catalog, 1, i - 1) \o SubSeq(catalog, i + 1, Len(catalog))
  /\ catChanges' = catChanges + 1
  /\ last' = Quiet
  /\ UNCHANGED <<session, orders, nextOid, issued, tasks>>

CatalogReprice(i, p) ==
  /\ catChanges < MaxCatalogChanges
  /\ i \in 1..Len(catalog) /\ catalog[i].id \in EditedItems
  /\ p # catalog[i].price
  /\ catalog' = [catalog EXCEPT ![i].price = p]
  /\ catChanges' = catChanges + 1
  /\ last' = Quiet
  /\ UNCHANGED <<session, orders, nextOid, issued, tasks>>

\* ---------------------------------------------------------------- reconnect
\* io.on("connection") for a client that connects again (lines 149-159, 214-216):
\* the session is regenerated, the greeting and the options are emitted.  The
\* handlers of the closed socket have ended.
Reconnect(c) ==
  /\ session[c].sessionId < Token(c) + NumConns * MaxReconnects
  /\ \A t \in tasks : t.conn # c
  /\ session' = [session EXCEPT ![c] = Regenerated(session[c])]
  /\ last' = [ev |-> "connect", conn |-> c, out |-> <<"welcome", "options">>]
  /\ UNCHANGED <<catalog, catChanges, orders, nextOid, issued, tasks>>

\* ---------------------------------------------------------------- specification
\* The steps that can change the session, the Order collection or the set of
\* suspended handlers, with the database answering every query.
Mutating ==
  \/ \E c \in Conns, inp \in Inputs : BrowseStart(c, inp)
  \/ \E t \in tasks : BrowseDone(t)
  \/ \E c \in Conns, inp \in Inputs : SelectStart(c, inp)
  \/ \E t \in tasks : SelectDone(t)
  \/ \E c \in Conns, inp \in Inputs : CancelStart(c, inp)
  \/ \E t \in tasks : CancelDone(t)
  \/ \E c \in Conns, inp \in Inputs : CheckoutCart(c, inp)
  \/ \E c \in Conns, inp \in Inputs : CheckoutPending(c, inp)
  \/ \E t \in tasks : CheckoutValidate(t)
  \/ \E t \in tasks : CheckoutSaved(t)
  \/ \E t \in tasks, r \in InitializeResults : CheckoutGateway(t, r)
  \/ \E t \in tasks : CheckoutRefSaved(t)
  \/ \E ref \in Refs : CallbackPaid(ref)

\* The steps that only answer, and the first query of a checkout failing.
Replying ==
  \/ \E c \in Conns, inp \in Inputs : Invalid(c, inp)
  \/ \E c \in Conns, inp \in Inputs : SelectIgnored(c, inp)
  \/ \E c \in Conns, inp \in Inputs : CheckoutNothing(c, inp)
  \/ \E c \in Conns, inp \in Inputs : CheckoutLookupFails(c, inp)
  \/ \E ref \in Refs : CallbackNoOrder(ref)
  \/ \E ref \in Refs : CallbackNotSuccess(ref)
  \/ \E ref \in Refs : CallbackVerifyFails(ref)

\* The restaurant's edits of the menu.
Editing ==
  \/ \E i \in 1..Len(SeedMenu) : CatalogRemove(i)
  \/ \E i \in 1..Len(SeedMenu), p \in {PriceMin} : CatalogReprice(i, p)

\* The program and the menu edits.
Next == Mutating \/ Editing

Spec == Init /\ [][Next]_vars

\* The program with clients that reconnect, over the seeded menu.
NextSessions == Mutating \/ \E c \in Conns : Reconnect(c)

SpecSessions == Init /\ [][NextSessions]_vars

\* The program with all its replies, over the seeded menu.
NextReplies == Mutating \/ Replying

SpecReplies == Init /\ [][NextReplies]_vars

\* ---------------------------------------------------------------- claims
Tokens == {Token(c) : c \in Conns}

\* C1: in every reachable state the Order collection holds at most one pending
\* order for any session token.
C1_AtMostOnePending ==
  \A sid \in Tokens : Cardinality(PendingOf(orders, sid)) <= 1

\* C2: a verified-success callback for a reference whose order is already paid
\* leaves the order as it is, and clear-session is broadcast only by a callback
\* that made the pending-to-paid transition.
C2_DuplicateCallbackIdempotent ==
  [][(last'.ev = "callback" /\ last'.verify = "success" /\ last'.found)
       => /\ ~last'.transition => orders' = orders
          /\ last'.bcast # <<>> => last'.transition]_vars

\* C3: when a cancel turn completes its session has no pending order and an
\* empty cart, and the delete of a cancel turn leaves every order that is not a
\* pending order of the session as it was.
C3_CancelClears ==
  [][/\ last'.ev = "cancel"
          => /\ PendingOf(orders', session'[last'.conn].sessionId) = {}
             /\ session'[last'.conn].currentOrder = <<>>
     /\ \A c \in Conns, inp \in Inputs :
          CancelStart(c, inp)
            => \A o \in DOMAIN orders \ PendingOf(orders, Sid(c)) :
                 o \in DOMAIN orders' /\ orders'[o] = orders[o]]_vars

\* The ids of an order's items, and the ids x occurs as often in a as in b.
ItemIds(items) == [i \in 1..Len(items) |-> items[i].menuItemId]
Count(a, x) == Cardinality({i \in 1..Len(a) : a[i] = x})
SameBag(a, b) == \A x \in Range(a) \cup Range(b) : Count(a, x) = Count(b, x)

RECURSIVE SumLines(_)
SumLines(items) ==
  IF items = <<>> THEN 0
  ELSE Head(items).price * Head(items).quantity + SumLines(Tail(items))

\* C4: a checkout turn reads the menu at the prices the catalog has at that
\* moment, and the order it then creates has exactly the items of the cart the
\* turn was invoked with, each with quantity 1 and the price read, and a total
\* that is the sum of these prices.
C4_OrderMatchesCart ==
  [][/\ \A u \in tasks' \ tasks :
          (u.kind = "checkout" /\ u.pc = "validate")
            => \A i \in 1..Len(u.items) : u.items[i] \in Range(catalog)
     /\ last'.ev = "orderCreated"
          => LET o == orders'[last'.oid]
             IN  /\ SameBag(ItemIds(o.items), last'.ids)
                 /\ \A i \in 1..Len(o.items) :
                      /\ o.items[i].quantity = 1
                      /\ \E j \in 1..Len(last'.items) :
                           /\ last'.items[j].id = o.items[i].menuItemId
                           /\ last'.items[j].price = o.items[i].price
                 /\ o.total = SumPrices(last'.items)]_vars

\* C5: every stored order's total is the sum of price x quantity over its
\* items, and no step changes the items or the total of an order that stays
\* in the collection.
C5_TotalIsSnapshot ==
  [][/\ \A o \in DOMAIN orders' : orders'[o].total = SumLines(orders'[o].items)
     /\ \A o \in DOMAIN orders \cap DOMAIN orders' :
          /\ orders'[o].items = orders[o].items
          /\ orders'[o].total = orders[o].total]_vars

\* C5 witness: a paid order, with a payment reference, checked out again
\* before it was paid or not, whose item price is no longer the catalog's.
C5_Witness ==
  \E o \in DOMAIN orders :
    /\ orders[o].status = "paid"
    /\ orders[o].paymentReference # NoRef
    /\ orders[o].total = SumLines(orders[o].items)
    /\ \E i \in 1..Len(orders[o].items), j \in 1..Len(catalog) :
         /\ catalog[j].id = orders[o].items[i].menuItemId
         /\ catalog[j].price # orders[o].items[i].price

\* C6: the only status change of a stored order is pending to paid (or to
\* cancelled), and an order that is not pending is neither changed in status
\* nor deleted by any step.
C6_StatusMonotonic ==
  [][/\ \A o \in DOMAIN orders \cap DOMAIN orders' :
          orders'[o].status # orders[o].status
            => /\ orders[o].status = "pending"
               /\ orders'[o].status \in {"paid", "cancelled"}
     /\ \A o \in DOMAIN orders :
          orders[o].status # "pending"
            => o \in DOMAIN orders' /\ orders'[o].status = orders[o].status]_vars

\* C6 witness: a cancel turn completed for a session that has a paid order.
C6_Witness ==
  /\ last.ev = "cancel"
  /\ \E o \in DOMAIN orders :
       orders[o].status = "paid" /\ orders[o].sessionId = Sid(last.conn)

\* C7: a payment reference, once set on an order, is never changed, and no two
\* stored orders carry the same payment reference.
C7_ReferenceImmutableUnique ==
  [][/\ \A o \in DOMAIN orders \cap DOMAIN orders' :
          orders[o].paymentReference # NoRef
            => orders'[o].paymentReference = orders[o].paymentReference
     /\ \A o, p \in DOMAIN orders' :
          (o # p /\ orders'[o].paymentReference # NoRef)
            => orders'[o].paymentReference # orders'[p].paymentReference]_vars

\* C7 witness: checkout was invoked again on a pending order that already had
\* its reference and ended in the redirect, while another order carries a
\* reference too.
C7_Witness ==
  /\ last.ev = "checkout" /\ last.how = "redirect" /\ ~last.fresh
  /\ last.oid \in DOMAIN orders
  /\ orders[last.oid].paymentReference = RefOf(last.oid)
  /\ \E p \in DOMAIN orders :
       p # last.oid /\ orders[p].paymentReference # NoRef

\* C8: a callback whose verification reports a status other than success leaves
\* the Order collection unchanged, broadcasts nothing, and answers with the
\* redirect to /?payment=error.
C8_NotSuccessRedirectsToError ==
  [][(last'.ev = "callback" /\ last'.verify = "failed")
       => /\ orders' = orders
          /\ last'.bcast = <<>>
          /\ last'.resp = <<"/?payment=error">>]_vars

\* C9: a callback whose reference no order carries, its verification reporting
\* success or not, leaves the Order collection unchanged, broadcasts nothing,
\* answers with the redirect to /?payment=error, and fails no further.
C9_UnknownReferenceGraceful ==
  [][(last'.ev = "callback" /\ ~last'.found /\ last'.verify \in {"success", "error"})
       => /\ orders' = orders
          /\ last'.bcast = <<>>
          /\ last'.resp = <<"/?payment=error">>
          /\ ~last'.unhandled]_vars

\* The cart ids names an item the menu lookup did not return.
Vanished(ids, items) ==
  \E i \in 1..Len(ids) : \A j \in 1..Len(items) : items[j].id # ids[i]

\* C10: a checkout turn invoked with a cart that names an item no longer in
\* the catalog creates no order; it ends with the cart empty, the error
\* message emitted, and no request sent to the payment gateway.
C10_VanishedItemRefused ==
  /\ last.ev = "orderCreated" => ~Vanished(last.ids, last.items)
  /\ (last.ev = "checkout" /\ Vanished(last.ids, last.items))
       => /\ last.out \in {<<"unavailable">> \o Options, ErrorOut}
          /\ session[last.conn].currentOrder = <<>>
          /\ ~last.gw /\ ~last.fresh

\* C11: a checkout turn that created its order from the cart and whose
\* initialize request fails ends with the error message and the options, emits
\* no redirect, persists no payment reference, and leaves the order it created
\* not pending in the Order collection.
C11_GatewayFailureCompensated ==
  [][(last'.ev = "checkout" /\ last'.how = "gatewayFailed" /\ last'.fresh)
       => /\ last'.out = <<"payError", "options">>
          /\ \A o \in DOMAIN orders \cap DOMAIN orders' :
               orders'[o].paymentReference = orders[o].paymentReference
          /\ last'.oid \in DOMAIN orders'
               => orders'[last'.oid].status # "pending"]_vars

\* C11 witness: such a turn ended, and the order it had created is gone.
C11_Witness ==
  /\ last.ev = "checkout" /\ last.how = "gatewayFailed" /\ last.fresh
  /\ last.oid \notin DOMAIN orders
  /\ last.oid = nextOid

\* C12: a checkout turn that fails before it has an active order (a lookup
\* rejects, or the new order is refused by save) removes no order from the
\* Order collection.
C12_UndefinedDeleteIsNoOp ==
  [][(/\ last'.ev = "checkout"
      /\ \/ last'.how = "lookupFailed"
         \/ last'.how = "saveFailed" /\ ~last'.gw)
       => orders' = orders]_vars

\* C13: a verified-success callback updates an order only if that order is
\* pending (an order it matches by reference in another status is not
\* written), and it completes without an error, also when a cancel removed
\* the order first.
C13_ConditionalTransition ==
  [][(last'.ev = "callback" /\ last'.verify = "success")
       => /\ last'.found => last'.transition
          /\ ~last'.unhandled]_vars

\* C14: no two user-message handlers of one connection are in progress at the
\* same time.
C14_TurnsSerialized ==
  \A t, u \in tasks : t.conn = u.conn => t = u

\* C15: once an order of a session token is paid and no handler is in progress
\* any more, no connection is still bound to that token: each has been reset
\* to a new token.
C15_PaidSessionResets ==
  \A c \in Conns, o \in DOMAIN orders :
    (orders[o].status = "paid" /\ tasks = {})
      => session[c].sessionId # orders[o].sessionId

Unmatched == { <<"2", ",">> }

\* C17: a message the pattern does not match is not taken for a selection; it
\* is answered with the validation error and the options, and the session
\* (cart, awaited selection, token), the Order collection, the gateway's
\* transactions and the handlers in progress stay as they are.
C17_InvalidInputRejected ==
  [][\A c \in Conns, inp \in Unmatched :
       /\ ~SelectStart(c, inp) /\ ~SelectIgnored(c, inp)
       /\ Invalid(c, inp)
            => /\ last'.out = <<"invalid", "options">>
               /\ UNCHANGED <<session, orders, issued, tasks>>]_vars

\* C17 witness: a message was refused while a selection was awaited, the cart
\* held items and an order was stored.
C17_Witness ==
  /\ last.ev = "invalid" /\ last.conn \in Conns
  /\ session[last.conn].awaitingItemSelection
  /\ session[last.conn].currentOrder # <<>>
  /\ orders # <<>>

\* The integers the selection messages list.
Listed(inp) ==
  CASE inp = <<"3">> -> <<3>>
    [] inp = <<"2", ",", "2">> -> <<2, 2>>
    [] inp = <<"1", ",", "3">> -> <<1, 3>>
    [] inp = <<"5", ",", "3">> -> <<5, 3>>
    [] inp = <<"0", ",", "5">> -> <<0, 5>>
    [] OTHER -> <<>>

\* The menu items at the listed 1-based positions, the entries outside
\* 1..Len(cat) left out.
AtPositions(cat, nums) ==
  LET ok == SelectSeq(nums, LAMBDA n : n \in 1..Len(cat))
  IN  [i \in 1..Len(ok) |-> cat[ok[i]]]

\* C18: a selection turn, taken while a selection is awaited, picks exactly
\* the menu items at the listed positions that lie in 1..menu length and sums
\* their prices; when it completes with at least one item picked the cart is
\* these items, no selection is awaited and the count and total reported are
\* the cart's size and that sum; with none picked the session is unchanged and
\* the invalid-selection error is emitted; the options follow in both cases.
C18_SelectionReplacesCart ==
  [][/\ \A c \in Conns, inp \in Inputs :
          SelectStart(c, inp)
            => \E u \in tasks' \ tasks :
                 LET picked == AtPositions(catalog, Listed(inp))
                 IN  /\ u.ids = [i \in 1..Len(picked) |-> picked[i].id]
                     /\ u.total = SumPrices(picked)
     /\ \A t \in tasks :
          SelectDone(t)
            => IF t.ids # <<>>
                 THEN /\ session'[t.conn].currentOrder = t.ids
                      /\ ~session'[t.conn].awaitingItemSelection
                      /\ last'.out = <<"added", "options">>
                      /\ last'.count = Len(session'[t.conn].currentOrder)
                      /\ last'.total = t.total
                 ELSE /\ session' = session
                      /\ last'.out = <<"invalidSelection", "options">>]_vars

\* C18 witness: the selection "1,3" completed after the menu had lost its third
\* item: the cart holds the first item and the one that is third now.
C18_Witness ==
  /\ last.ev = "select" /\ last.conn \in Conns
  /\ last.count = 2 /\ last.total = 2300
  /\ Len(catalog) < Len(SeedMenu)
  /\ session[last.conn].currentOrder = <<1, 4>>
  /\ ~session[last.conn].awaitingItemSelection

\* The messages that match the pattern and are none of 0, 1, 97, 98, 99.
Selections ==
  { <<"3">>, <<"2", ",", "2">>, <<"1", ",", "3">>, <<"5", ",", "3">>,
    <<"0", ",", "5">> }

\* C19: while no selection is awaited, such a message starts no selection; its
\* turn emits nothing and leaves the session (cart, awaited selection, token),
\* the Order collection, the gateway's transactions and the handlers in
\* progress as they are.
C19_IgnoredWhenNotAwaiting ==
  [][\A c \in Conns, inp \in Selections :
       ~session[c].awaitingItemSelection
         => /\ ~SelectStart(c, inp)
            /\ SelectIgnored(c, inp)
                 => /\ last'.out = <<>>
                    /\ UNCHANGED <<session, orders, issued, tasks>>]_vars

\* C19 witness: such a message was ignored while the cart held items and a
\* pending order was stored.
C19_Witness ==
  /\ last.ev = "ignored" /\ last.conn \in Conns
  /\ ~session[last.conn].awaitingItemSelection
  /\ session[last.conn].currentOrder # <<>>
  /\ \E o \in DOMAIN orders : orders[o].status = "pending"

\* C20: every initialize request sent to the gateway is for a total of at
\* least 100, the stored order's total, with amount = total x 100 and the
\* reference order_<id> of that order.
C20_InitializeRequest ==
  last.ev = "initialize"
    => /\ last.total >= 100
       /\ last.amount = last.total * 100
       /\ last.reference = <<"order_", last.oid>>
       /\ last.oid \in DOMAIN orders => orders[last.oid].total = last.total

\* C20 witness: initialize was requested for a stored order of two items.
C20_Witness ==
  /\ last.ev = "initialize"
  /\ last.oid \in DOMAIN orders
  /\ Len(orders[last.oid].items) = 2
  /\ last.amount = 270000

\* C21: a checkout turn emits the redirect only after the gateway answered
\* with an authorization url, and at that moment the order of the turn is in
\* the Order collection, pending, with the reference that was sent to the
\* gateway as its paymentReference.
C21_RedirectAfterReferencePersisted ==
  [][(last'.ev = "checkout" /\ last'.how = "redirect")
       => \A t \in tasks \ tasks' :
            /\ t.ref \in issued
            /\ t.oid \in DOMAIN orders'
            /\ orders'[t.oid].status = "pending"
            /\ orders'[t.oid].paymentReference = t.ref]_vars

\* C22: a checkout turn that took its order from the lookup of the session's
\* pending order (the cart was empty) and then fails at the gateway removes no
\* order: the order it found is still in the Order collection, as it was.
C22_CompensationSparesEarlierOrder ==
  [][(/\ last'.ev = "checkout" /\ last'.gw /\ ~last'.fresh
      /\ last'.how \in {"gatewayFailed", "saveFailed"})
       => orders' = orders]_vars

\* C23: while the catalog is as it was seeded, a checkout turn that validates
\* the cart it was invoked with (a cart the selection step stored) creates an
\* order for it; it does not end with the items-no-longer-available error.
C23_AcceptedCartChecksOut ==
  [][\A t \in tasks \ tasks' :
       (/\ t.kind = "checkout" /\ t.pc = "validate"
        /\ catChanges = 0 /\ t.ids = Cart(t.conn))
         => last'.ev = "orderCreated"]_vars

\* The messages that are one menu index and nothing else.
SingleIndex == { <<"1">>, <<"3">> }

\* C24: while a selection is awaited, a message that is a single index i in
\* 1..menu length is taken as the selection of menu item i, not as a command:
\* it starts no browse turn, and the selection turn it starts picks exactly
\* item i and, when it completes, leaves that item alone in the cart and no
\* selection awaited.
C24_SingleIndexSelects ==
  [][\A c \in Conns, inp \in SingleIndex :
       (Awaiting(c) /\ ParseInt(inp) \in 1..Len(catalog))
         => /\ ~BrowseStart(c, inp)
            /\ SelectStart(c, inp)
                 => \E u \in tasks' \ tasks :
                      /\ u.kind = "select"
                      /\ u.ids = <<catalog[ParseInt(inp)].id>>]_vars

\* C25: every payment callback request is answered with exactly one redirect
\* by the time its handler has run to its end, whatever the verification
\* reported and whether an order carries the reference or not.
C25_CallbackAnsweredOnce ==
  last.ev = "callback" => Len(last.resp) = 1

====
